---- MODULE Spec2Model ----
(***************************************************************************)
(* A model of the trade-predictor orchestration pipeline:                  *)
(*   - the two route handlers (POST analyze-stocks, GET cron),             *)
(*   - analyzeStocks (sequential loop, JSON extraction, pause, email),     *)
(*   - the web-search tool helpers (extractDomain, cleanTitle,             *)
(*     deduplicateByDomainAndUrl) and the exaWebSearch fan-out.            *)
(* Strings are modelled as sequences of tokens; each regular expression    *)
(* of the source is an operator over those sequences.                      *)
(***************************************************************************)
EXTENDS Integers, Sequences, FiniteSets, TLC

VARIABLES
    env,          \* process.env: the configured credentials
    req,          \* the incoming HTTP request
    pc,           \* position of the single thread of control
    stocks,       \* analyzeStocks: the symbol list argument
    pos,          \* analyzeStocks: 1-based position of the for-of iterator
    finalResult,  \* analyzeStocks: text returned by the last agent call
    jsonResult,   \* analyzeStocks: record extracted from finalResult
    finalResults, \* analyzeStocks: the collected records
    responses,    \* history: the agent response received at each position
    agentCalls,   \* history: prompts given to processWithAI, in call order
    pauses,       \* history: loop positions after which the 2000ms pause ran
    emailCalls,   \* history: argument of every sendEmail invocation
    mailSends,    \* history: number of transporter.sendMail calls
    runResult,    \* value returned by analyzeStocks to its caller
    resp,         \* the HTTP response
    thrown,       \* history: where the error the handler caught was raised
    items,        \* search tool: one query's normalized hits
    kept,         \* search tool: output of deduplicateByDomainAndUrl
    title,        \* search tool: a raw result title
    cleaned,      \* search tool: cleanTitle applied once and twice
    queries,      \* exaWebSearch: the queries of the invocation
    raws,         \* exaWebSearch: per query, the raw hits its search returned
    qstate,       \* exaWebSearch: per query, "pending" | "ok" | "failed"
    searches,     \* exaWebSearch: per query, the result entry
    toolOut       \* exaWebSearch: the value the tool call resolves to

vars == << env, req, pc, stocks, pos, finalResult, jsonResult, finalResults,
           responses, agentCalls, pauses, emailCalls, mailSends, runResult,
           resp, thrown, items, kept, title, cleaned, queries, raws, qstate,
           searches, toolOut >>

pipelineVars == << env, req, pc, stocks, pos, finalResult, jsonResult,
                   finalResults, responses, agentCalls, pauses, emailCalls,
                   mailSends, runResult, resp, thrown >>

searchVars == << items, kept, title, cleaned, queries, raws, qstate,
                 searches, toolOut >>

----------------------------------------------------------------------------
(* Bounds of the model *)

MaxStocks == 3      \* longest symbol list a POST body carries
MaxItems == 3       \* longest list given to deduplicateByDomainAndUrl
MaxTitleLen == 4    \* longest raw title, in tokens
MaxQueries == 2     \* most queries of one exaWebSearch invocation
MaxHits == 2        \* most raw hits one search returns

----------------------------------------------------------------------------
(* Generic helpers over sequences *)

Range(s) == { s[i] : i \in 1..Len(s) }

SeqsUpTo(S, n) == UNION { [1..k -> S] : k \in 0..n }

Min(S) == CHOOSE x \in S : \A y \in S : x <= y

Max(S) == CHOOSE x \in S : \A y \in S : x >= y

\* Array.prototype.indexOf, 1-based (the element is known to be present)
IndexOf(s, x) == Min({ i \in 1..Len(s) : s[i] = x })

----------------------------------------------------------------------------
(* Agent response texts: sequences of the tokens below.                    *)
(*   FENCE = three backticks, JSONTAG = the word json, NL = line break,   *)
(*   OBJ_A / OBJ_B = a complete JSON object literal, PROSE = other text    *)

FENCE == "<fence>"
JSONTAG == "json"
NL == "<nl>"
OBJ_A == "{STOCK NAME:TCS}"
OBJ_B == "{STOCK NAME:INFY}"
PROSE == "prose"

JsonLiterals == { OBJ_A, OBJ_B }

\* the value JSON.parse gives for each literal
ValueOf(tok) ==
    IF tok = OBJ_A THEN "rec:TCS"
    ELSE IF tok = OBJ_B THEN "rec:INFY"
    ELSE "rec:invalid"

EmptyRecord == "rec:{}"
NoRecord == "rec:none"

Block(content) == << FENCE, JSONTAG, NL >> \o content \o << NL, FENCE >>

\* what the agent may answer
AgentTexts ==
    { << PROSE >>,
      Block(<< OBJ_A >>),
      << PROSE, NL >> \o Block(<< OBJ_B >>) \o << NL, PROSE >>,
      Block(<< PROSE >>),
      << FENCE, NL, OBJ_A, NL, FENCE >>,
      Block(<< OBJ_A >>) \o << NL >> \o Block(<< OBJ_B >>) }

\* the opening literal (fence, json, line break) starts at token i
OpensAt(t, i) ==
    /\ i >= 1 /\ i + 2 <= Len(t)
    /\ t[i] = FENCE /\ t[i + 1] = JSONTAG /\ t[i + 2] = NL

\* the closing literal (line break, fence) starts at token j
ClosesAt(t, j) == j >= 1 /\ j + 1 <= Len(t) /\ t[j] = NL /\ t[j + 1] = FENCE

\* all ways the fenced-block pattern can match: <<start of opener, start of closer>>
MatchPairs(t) ==
    { p \in (1..Len(t)) \X (1..Len(t)) :
        OpensAt(t, p[1]) /\ ClosesAt(t, p[2]) /\ p[2] >= p[1] + 3 }

\* the capture group is greedy and dot-all: it runs from the leftmost opener
\* to the LAST closer of the text
GreedyClose(t, i) == Max({ p[2] : p \in { q \in MatchPairs(t) : q[1] = i } })

\* the nearest closer after opener i (what a lazy capture would take); the
\* source does not use it, the claims about the first block do
LazyClose(t, i) == Min({ p[2] : p \in { q \in MatchPairs(t) : q[1] = i } })

\* finalResult.match(pattern): whether it matched, and jsonMatch[1]
HasMatch(t) == MatchPairs(t) # {}

Capture(t) ==
    LET i == Min({ p[1] : p \in MatchPairs(t) })
        j == GreedyClose(t, i)
    IN  SubSeq(t, i + 3, j - 1)

\* JSON.parse: surrounding whitespace is skipped, exactly one value must remain
RECURSIVE StripNL(_)
StripNL(s) ==
    IF s = << >> THEN s
    ELSE IF Head(s) = NL THEN StripNL(Tail(s))
    ELSE IF s[Len(s)] = NL THEN StripNL(SubSeq(s, 1, Len(s) - 1))
    ELSE s

ParseOk(s) == LET c == StripNL(s) IN Len(c) = 1 /\ c[1] \in JsonLiterals

JSONParse(s) == ValueOf(StripNL(s)[1])

\* jsonMatch ? JSON.parse(jsonMatch[1]) : {}
ExtractThrows(t) == HasMatch(t) /\ ~ParseOk(Capture(t))

ExtractRecord(t) == IF HasMatch(t) THEN JSONParse(Capture(t)) ELSE EmptyRecord

----------------------------------------------------------------------------
(* Environment and requests *)

Symbols == { "TCS", "INFY" }

\* cron route: the fixed default symbol list
defaultStocks == << "ITBEES", "RELIANCE", "TCS", "HDFC", "INFY" >>

Unset == "<unset>"

Envs ==
    [ gatewayKey : BOOLEAN, cronSecret : { Unset, "s1" },
      gmailUser : BOOLEAN, gmailPass : BOOLEAN ]

\* the value of the stocks property of a parsed body
FieldKinds == { "absent", "null", "zero", "emptystr", "string", "object" }

StockFields ==
    { [ t |-> k, elems |-> << >> ] : k \in FieldKinds }
    \cup { [ t |-> "array", elems |-> l ] : l \in SeqsUpTo(Symbols, MaxStocks) }

AbsentField == [ t |-> "absent", elems |-> << >> ]

NoHeader == [ present |-> FALSE, value |-> << >> ]

Headers ==
    { NoHeader }
    \cup { [ present |-> TRUE, value |-> v ] :
            v \in { << "Bearer ", "s1" >>, << "Bearer ", "s2" >>,
                    << "Bearer ", "undefined" >>, << "s1" >> } }

\* body: "missing" (no body), "malformed" (not JSON), or the kind of JSON value
PostRequests ==
    { [ route |-> "POST", body |-> b, field |-> AbsentField, auth |-> NoHeader ] :
        b \in { "missing", "malformed", "null", "number" } }
    \cup { [ route |-> "POST", body |-> "object", field |-> f, auth |-> NoHeader ] :
            f \in StockFields }

GetRequests ==
    { [ route |-> "GET", body |-> "missing", field |-> AbsentField, auth |-> h ] :
        h \in Headers }

Requests == PostRequests \cup GetRequests

NoResponse == [ status |-> 0, kind |-> "none", results |-> << >>, count |-> 0 ]

ErrorResponse(code) ==
    [ status |-> code, kind |-> "error", results |-> << >>, count |-> 0 ]

NoRunResult == [ returned |-> FALSE, results |-> << >> ]

\* JavaScript truthiness of the stocks property
Truthy(f) == f.t \notin { "absent", "null", "zero", "emptystr" }

IsArray(f) == f.t = "array"

\* the template literal `Bearer ${vercelCronSecret}`
ExpectedAuth(secret) ==
    << "Bearer ", IF secret = Unset THEN "undefined" ELSE secret >>

\* variant: only the presence of the header is checked
AuthMismatchAbsentOnly(h, secret) == ~h.present

\* authHeader !== `Bearer ${vercelCronSecret}`
AuthMismatch(h, secret) == ~h.present \/ h.value # ExpectedAuth(secret)

----------------------------------------------------------------------------
(* Initial state of the pipeline (one request per behaviour) *)

SearchIdle ==
    /\ items = << >>
    /\ kept = [ done |-> FALSE, out |-> << >> ]
    /\ title = << >>
    /\ cleaned = << >>
    /\ queries = << >>
    /\ raws = << >>
    /\ qstate = << >>
    /\ searches = << >>
    /\ toolOut = [ resolved |-> FALSE, searches |-> << >> ]

PipelineInit ==
    /\ env \in Envs
    /\ req \in Requests
    /\ pc = "handler"
    /\ stocks = << >>
    /\ pos = 0
    /\ finalResult = << >>
    /\ jsonResult = NoRecord
    /\ finalResults = << >>
    /\ responses = << >>
    /\ agentCalls = << >>
    /\ pauses = << >>
    /\ emailCalls = << >>
    /\ mailSends = 0
    /\ runResult = NoRunResult
    /\ resp = NoResponse
    /\ thrown = "none"

Init == PipelineInit /\ SearchIdle

----------------------------------------------------------------------------
(* Route handlers *)

loopVars == << pos, finalResult, jsonResult, finalResults, responses,
               agentCalls, pauses, emailCalls, mailSends, runResult >>

\* variant: a per-symbol handler swallows the error and the loop goes on
PropagateSwallowed == "push"

\* where an error thrown inside analyzeStocks lands: the function has no
\* try/catch of its own, so the route handler's catch block
Propagate == "caught"

Respond(r) == resp' = r /\ pc' = "done"

\* POST: the credential check that opens the handler
PostCheckKey ==
    /\ pc = "handler" /\ req.route = "POST"
    /\ IF ~env.gatewayKey
       THEN Respond(ErrorResponse(500))
       ELSE pc' = "post_body" /\ UNCHANGED resp
    /\ UNCHANGED << env, req, thrown, stocks, loopVars, searchVars >>

\* POST: await request.json() and the destructuring of stocks; both throw
\* into the handler's catch
BodyThrows(r) == r.body \in { "missing", "malformed", "null" }

PostParseBody ==
    /\ pc = "post_body"
    /\ IF BodyThrows(req)
       THEN pc' = "caught" /\ thrown' = "body"
       ELSE pc' = "post_validate" /\ UNCHANGED thrown
    /\ UNCHANGED << env, req, stocks, resp, loopVars, searchVars >>

\* POST: if (!stocks || !Array.isArray(stocks)) 400, else analyzeStocks(stocks)
PostValidate ==
    /\ pc = "post_validate"
    /\ IF ~Truthy(req.field) \/ ~IsArray(req.field)
       THEN Respond(ErrorResponse(400)) /\ UNCHANGED stocks
       ELSE stocks' = req.field.elems /\ pc' = "loop" /\ UNCHANGED resp
    /\ UNCHANGED << env, req, thrown, loopVars, searchVars >>

\* GET: the Authorization check, then analyzeStocks(defaultStocks)
GetAuth ==
    /\ pc = "handler" /\ req.route = "GET"
    /\ IF AuthMismatch(req.auth, env.cronSecret)
       THEN Respond(ErrorResponse(401)) /\ UNCHANGED stocks
       ELSE stocks' = defaultStocks /\ pc' = "loop" /\ UNCHANGED resp
    /\ UNCHANGED << env, req, thrown, loopVars, searchVars >>

\* the body of a 200 answer: POST returns the RunResult, GET a summary with
\* analysisResult.results?.length || 0
SuccessResponse(route, rr) ==
    IF route = "POST"
    THEN [ status |-> 200, kind |-> "runresult", results |-> rr.results,
           count |-> 0 ]
    ELSE [ status |-> 200, kind |-> "summary", results |-> << >>,
           count |-> Len(rr.results) ]

RespondOk ==
    /\ pc = "respond"
    /\ Respond(SuccessResponse(req.route, runResult))
    /\ UNCHANGED << env, req, thrown, stocks, loopVars, searchVars >>

\* the catch block of either handler
RespondCaught ==
    /\ pc = "caught"
    /\ Respond(ErrorResponse(500))
    /\ UNCHANGED << env, req, thrown, stocks, loopVars, searchVars >>

----------------------------------------------------------------------------
(* analyzeStocks *)

\* for (const stock of stocks): the next iteration starts by calling
\* processWithAI(stock)
CallAgent ==
    /\ pc = "loop" /\ pos < Len(stocks)
    /\ pos' = pos + 1
    /\ agentCalls' = Append(agentCalls, stocks[pos + 1])
    /\ pc' = "agent"
    /\ UNCHANGED << env, req, thrown, stocks, finalResult, jsonResult, finalResults,
                    responses, pauses, emailCalls, mailSends, runResult, resp,
                    searchVars >>

\* processWithAI resolves with the accumulated text of the stream
AgentReturns ==
    /\ pc = "agent"
    /\ \E t \in AgentTexts :
          /\ finalResult' = t
          /\ responses' = Append(responses, t)
    /\ pc' = "extract"
    /\ UNCHANGED << env, req, thrown, stocks, pos, jsonResult, finalResults,
                    agentCalls, pauses, emailCalls, mailSends, runResult, resp,
                    searchVars >>

\* processWithAI rethrows any provider error; nothing in analyzeStocks
\* catches it
AgentThrows ==
    /\ pc = "agent"
    /\ pc' = Propagate
    /\ thrown' = "agent"
    /\ UNCHANGED << env, req, stocks, pos, finalResult, jsonResult,
                    finalResults, responses, agentCalls, pauses, emailCalls,
                    mailSends, runResult, resp, searchVars >>

\* jsonMatch = finalResult.match(...); jsonResult = jsonMatch ? JSON.parse : {}
Extract ==
    /\ pc = "extract"
    /\ IF ExtractThrows(finalResult)
       THEN pc' = Propagate /\ thrown' = "parse" /\ UNCHANGED jsonResult
       ELSE jsonResult' = ExtractRecord(finalResult) /\ pc' = "delay"
            /\ UNCHANGED thrown
    /\ UNCHANGED << env, req, stocks, pos, finalResult, finalResults,
                    responses, agentCalls, pauses, emailCalls, mailSends,
                    runResult, resp, searchVars >>

\* stocks.indexOf(stock) < stocks.length - 1 (indexOf is 0-based)
ShouldPause(list, stock) == IndexOf(list, stock) - 1 < Len(list) - 1

\* the 2000ms pause between analyses
Delay ==
    /\ pc = "delay"
    /\ pauses' = IF ShouldPause(stocks, stocks[pos])
                 THEN Append(pauses, pos)
                 ELSE pauses
    /\ pc' = "push"
    /\ UNCHANGED << env, req, thrown, stocks, pos, finalResult, jsonResult,
                    finalResults, responses, agentCalls, emailCalls, mailSends,
                    runResult, resp, searchVars >>

\* variant: unshift instead of push
PushResultFront(results, rec) == << rec >> \o results

\* finalResults.push(jsonResult)
PushResult(results, rec) == Append(results, rec)

Push ==
    /\ pc = "push"
    /\ finalResults' = PushResult(finalResults, jsonResult)
    /\ pc' = "loop"
    /\ UNCHANGED << env, req, thrown, stocks, pos, finalResult, jsonResult, responses,
                    agentCalls, pauses, emailCalls, mailSends, runResult, resp,
                    searchVars >>

\* variant: the notifier call sits inside the loop body
LoopDoneEarly(list, p) == p >= 1 \/ p >= Len(list)

\* the loop is exhausted: await sendEmail(finalResults)
LoopDone(list, p) == p >= Len(list)

\* variant: the early return needs both credentials to be missing
MissingMailCredsBoth(e) == ~e.gmailUser /\ ~e.gmailPass

\* !process.env.GMAIL_USER || !process.env.GMAIL_APP_PASSWORD
MissingMailCreds(e) == ~e.gmailUser \/ ~e.gmailPass

\* sendEmail returns early when a Gmail credential is missing; otherwise it
\* creates the transport and goes on to transporter.sendMail
SendEmail ==
    /\ pc = "loop" /\ LoopDone(stocks, pos)
    /\ emailCalls' = Append(emailCalls, finalResults)
    /\ pc' = IF MissingMailCreds(env) THEN "return" ELSE "mail"
    /\ UNCHANGED << env, req, thrown, stocks, pos, finalResult, jsonResult,
                    finalResults, responses, agentCalls, pauses, mailSends,
                    runResult, resp, searchVars >>

\* await transporter.sendMail(mailOptions) resolves
MailSent ==
    /\ pc = "mail"
    /\ mailSends' = mailSends + 1
    /\ pc' = "return"
    /\ UNCHANGED << env, req, thrown, stocks, pos, finalResult, jsonResult,
                    finalResults, responses, agentCalls, pauses, emailCalls,
                    runResult, resp, searchVars >>

\* transporter.sendMail rejects: sendEmail logs and rethrows
MailFails ==
    /\ pc = "mail"
    /\ mailSends' = mailSends + 1
    /\ pc' = Propagate
    /\ thrown' = "mail"
    /\ UNCHANGED << env, req, stocks, pos, finalResult, jsonResult,
                    finalResults, responses, agentCalls, pauses, emailCalls,
                    runResult, resp, searchVars >>

\* return { message, results: finalResults, timestamp }
Return ==
    /\ pc = "return"
    /\ runResult' = [ returned |-> TRUE, results |-> finalResults ]
    /\ pc' = "respond"
    /\ UNCHANGED << env, req, thrown, stocks, pos, finalResult, jsonResult,
                    finalResults, responses, agentCalls, pauses, emailCalls,
                    mailSends, resp, searchVars >>

Next ==
    \/ PostCheckKey
    \/ PostParseBody
    \/ PostValidate
    \/ GetAuth
    \/ CallAgent
    \/ AgentReturns
    \/ AgentThrows
    \/ Extract
    \/ Delay
    \/ Push
    \/ SendEmail
    \/ MailSent
    \/ MailFails
    \/ Return
    \/ RespondOk
    \/ RespondCaught

Spec == Init /\ [][Next]_vars

----------------------------------------------------------------------------
(* Claims about analyzeStocks and the route handlers, checked under Spec *)

\* the run of analyzeStocks completed: it returned to the route handler
RunCompleted == runResult.returned

\* C1: for a non-empty symbol list, the agent is called once per position, in
\* input order and one symbol at a time, and a completed run returns one
\* record per position, record i being the one extracted from response i.
C1_OneRecordPerSymbolInOrder ==
    /\ agentCalls = SubSeq(stocks, 1, pos)
    /\ Len(responses) <= Len(agentCalls)
    /\ Len(agentCalls) <= Len(finalResults) + 1
    /\ (RunCompleted /\ stocks # << >>) =>
          /\ agentCalls = stocks
          /\ Len(responses) = Len(stocks)
          /\ Len(runResult.results) = Len(stocks)
          /\ \A i \in 1..Len(stocks) :
                runResult.results[i] = ExtractRecord(responses[i])

C1_Witness ==
    /\ RunCompleted
    /\ Len(stocks) >= 3
    /\ runResult.results[1] # runResult.results[2]
    /\ runResult.results[2] # runResult.results[3]

\* C2: a completed run over n >= 1 symbols (duplicates allowed) has paused
\* exactly after positions 1..n-1, and not after the last position.
C2_PausesBetweenSymbols ==
    (RunCompleted /\ Len(stocks) >= 1) =>
        pauses = [ i \in 1..(Len(stocks) - 1) |-> i ]

\* the first fenced json block of a text: leftmost opener, nearest closer
FirstBlock(t) ==
    LET i == Min({ p[1] : p \in MatchPairs(t) })
    IN  SubSeq(t, i + 3, LazyClose(t, i) - 1)

ExtractionDone == pc \in { "delay", "push" }

ExtractionThrew == thrown = "parse"

\* C3: the record of a response text is the JSON value of its first fenced
\* json block when it has one (also when it has several), and the empty
\* mapping when it has none.
C3_RecordIsFirstBlock ==
    env.gatewayKey =>
    /\ ExtractionDone =>
          jsonResult = IF HasMatch(finalResult)
                       THEN JSONParse(FirstBlock(finalResult))
                       ELSE EmptyRecord
    /\ ExtractionThrew =>
          HasMatch(finalResult) /\ ~ParseOk(FirstBlock(finalResult))

\* a fenced json block of t (an opener up to the nearest closer after it)
\* whose content is not valid JSON
HasInvalidBlock(t) ==
    \E p \in MatchPairs(t) :
        /\ p[2] = LazyClose(t, p[1])
        /\ ~ParseOk(SubSeq(t, p[1] + 3, p[2] - 1))

LoopFailed == thrown \in { "agent", "parse" }

\* C4: a failing agent call, or a response with a fenced json block that is
\* not valid JSON, fails the run: no later agent call, no notifier call, and
\* nothing of the collected records reaches the caller.
C4_FailureAbortsRun ==
    /\ [](\A i \in 1..Len(responses) :
             (HasInvalidBlock(responses[i])
                /\ (i < Len(responses) \/ pc # "extract"))
             => (ExtractionThrew /\ i = Len(responses)))
    /\ [](LoopFailed =>
             /\ pc \in { "caught", "done" }
             /\ emailCalls = << >> /\ mailSends = 0
             /\ ~RunCompleted
             /\ resp.results = << >> /\ resp.kind \in { "none", "error" }
             /\ (pc = "done" => resp.status = 500))
    /\ [][LoopFailed =>
             /\ agentCalls' = agentCalls
             /\ emailCalls' = emailCalls
             /\ runResult' = runResult]_vars

C4_Witness ==
    /\ pc = "done"
    /\ ExtractionThrew
    /\ Len(finalResults) >= 1
    /\ Len(agentCalls) < Len(stocks)
    /\ resp.status = 500

\* C5: the notifier is invoked at most once, after every symbol was called
\* and extracted, with all records in input order; the run returns only
\* after the notifier completed, and a notifier failure fails the run
\* without returning the records.
C5_NotifyOnceAfterLoop ==
    /\ Len(emailCalls) <= 1
    /\ emailCalls # << >> =>
          /\ pos = Len(stocks)
          /\ Len(responses) = Len(stocks)
          /\ emailCalls[1] = finalResults
          /\ Len(emailCalls[1]) = Len(stocks)
          /\ \A i \in 1..Len(stocks) :
                emailCalls[1][i] = ExtractRecord(responses[i])
    /\ RunCompleted =>
          /\ Len(emailCalls) = 1
          /\ thrown = "none"
          /\ mailSends = IF env.gmailUser /\ env.gmailPass THEN 1 ELSE 0
    /\ resp.status = 200 => RunCompleted
    /\ thrown = "mail" =>
          /\ ~RunCompleted
          /\ resp.results = << >> /\ resp.kind \in { "none", "error" }
          /\ (pc = "done" => resp.status = 500)

C5_Witness ==
    /\ pc = "done"
    /\ thrown = "mail"
    /\ Len(emailCalls) = 1
    /\ Len(emailCalls[1]) >= 2
    /\ emailCalls[1][1] # emailCalls[1][2]

\* the request bodies C9 is about
InvalidPostInput(r) ==
    \/ r.body \in { "missing", "malformed" }
    \/ r.body = "object" /\ (r.field.t = "absent" \/ ~IsArray(r.field))

\* C9: with the provider credential present, POST answers a missing or
\* malformed body, or a stocks field that is absent or not an array, with a
\* 4xx status, and makes no agent call and sends no email.
C9_InvalidInputIs4xx ==
    (req.route = "POST" /\ env.gatewayKey /\ InvalidPostInput(req)) =>
        /\ agentCalls = << >> /\ emailCalls = << >> /\ mailSends = 0
        /\ (pc = "done" => resp.status \in 400..499)

\* the request reaches the orchestrator call of its handler
RunsOrchestrator(r, e) ==
    r.route = "GET" => (e.cronSecret # Unset /\ ~AuthMismatch(r.auth, e.cronSecret))

\* C10: on both entry points, a missing LLM gateway key is answered with a
\* 5xx status and no external call is attempted before that answer.
C10_MissingKeyIs5xxBeforeCalls ==
    (~env.gatewayKey /\ RunsOrchestrator(req, env)) =>
        /\ agentCalls = << >> /\ emailCalls = << >> /\ mailSends = 0
        /\ (pc = "done" => resp.status \in 500..599)

----------------------------------------------------------------------------
(* Web-search helpers.  A URL is a sequence of tokens: an optional leading *)
(* SCHEME (http:// or https://), then host and path characters, SLASH      *)
(* standing for any of the delimiters / ? #.                               *)

SCHEME == "http://"
SLASH == "/"

UrlBodies ==
    { << >>, << "a" >>, << "b" >>, << SLASH >>, << "a", SLASH >>,
      << "a", SLASH, "p" >>, << "a", "b" >> }

Urls == { pre \o body : pre \in { << >>, << SCHEME >> }, body \in UrlBodies }

\* the longest prefix of s without a delimiter: the greedy host group
RECURSIVE HostRun(_)
HostRun(s) ==
    IF s = << >> \/ Head(s) = SLASH THEN << >>
    ELSE << Head(s) >> \o HostRun(Tail(s))

\* url.match(urlPattern)?.[1] || url
extractDomain(url) ==
    IF url # << >> /\ Head(url) = SCHEME /\ HostRun(Tail(url)) # << >>
    THEN HostRun(Tail(url))
    ELSE url

\* variant: an item is kept when its URL or its domain is new
RECURSIVE FilterEither(_, _, _)
FilterEither(list, seenDomains, seenUrls) ==
    IF list = << >> THEN << >>
    ELSE LET item == Head(list)
             domain == extractDomain(item.url)
         IN  IF item.url \notin seenUrls \/ domain \notin seenDomains
             THEN << item >> \o FilterEither(Tail(list),
                                             seenDomains \cup { domain },
                                             seenUrls \cup { item.url })
             ELSE FilterEither(Tail(list), seenDomains, seenUrls)

DedupEither(list) == FilterEither(list, {}, {})

\* items.filter(...) with the two seen-sets threaded through the callback
RECURSIVE FilterSeen(_, _, _)
FilterSeen(list, seenDomains, seenUrls) ==
    IF list = << >> THEN << >>
    ELSE LET item == Head(list)
             domain == extractDomain(item.url)
             isNewUrl == item.url \notin seenUrls
             isNewDomain == domain \notin seenDomains
         IN  IF isNewUrl /\ isNewDomain
             THEN << item >> \o FilterSeen(Tail(list),
                                           seenDomains \cup { domain },
                                           seenUrls \cup { item.url })
             ELSE FilterSeen(Tail(list), seenDomains, seenUrls)

deduplicateByDomainAndUrl(list) == FilterSeen(list, {}, {})

\* an item is an object: id stands for its identity (its input position)
ItemsOf(urls) == [ i \in 1..Len(urls) |-> [ url |-> urls[i], id |-> i ] ]

PipelineIdle ==
    /\ env = [ gatewayKey |-> TRUE, cronSecret |-> "s1", gmailUser |-> TRUE,
               gmailPass |-> TRUE ]
    /\ req = [ route |-> "none", body |-> "missing", field |-> AbsentField,
               auth |-> NoHeader ]
    /\ pc = "idle"
    /\ stocks = << >>
    /\ pos = 0
    /\ finalResult = << >>
    /\ jsonResult = NoRecord
    /\ finalResults = << >>
    /\ responses = << >>
    /\ agentCalls = << >>
    /\ pauses = << >>
    /\ emailCalls = << >>
    /\ mailSends = 0
    /\ runResult = NoRunResult
    /\ resp = NoResponse
    /\ thrown = "none"

----------------------------------------------------------------------------
(* SpecDedup: deduplicateByDomainAndUrl applied to every bounded item list *)

NotRun == [ done |-> FALSE, out |-> << >> ]

DedupInit ==
    /\ PipelineIdle
    /\ items \in { ItemsOf(u) : u \in SeqsUpTo(Urls, MaxItems) }
    /\ kept = NotRun
    /\ title = << >>
    /\ cleaned = << >>
    /\ queries = << >>
    /\ raws = << >>
    /\ qstate = << >>
    /\ searches = << >>
    /\ toolOut = [ resolved |-> FALSE, searches |-> << >> ]

RunDedup ==
    /\ ~kept.done
    /\ kept' = [ done |-> TRUE, out |-> deduplicateByDomainAndUrl(items) ]
    /\ UNCHANGED << pipelineVars, items, title, cleaned, queries, raws,
                    qstate, searches, toolOut >>

DedupNext == RunDedup

SpecDedup == DedupInit /\ [][DedupNext]_vars

\* C6: the output is an order-preserving sub-list of the input, no two of its
\* items share a URL or an extracted domain, and every domain of the input is
\* represented by the first input item that has it.
C6_DedupFirstPerDomain ==
    kept.done =>
        LET out == kept.out IN
        /\ \A k \in 1..Len(out) :
              /\ out[k].id \in 1..Len(items)
              /\ out[k] = items[out[k].id]
        /\ \A k \in 1..(Len(out) - 1) : out[k].id < out[k + 1].id
        /\ \A k, l \in 1..Len(out) :
              k # l => /\ out[k].url # out[l].url
                       /\ extractDomain(out[k].url) # extractDomain(out[l].url)
        /\ \A i \in 1..Len(items) :
              LET first == Min({ j \in 1..Len(items) :
                                   extractDomain(items[j].url)
                                     = extractDomain(items[i].url) })
              IN  /\ items[first] \in Range(out)
                  /\ (i # first => items[i] \notin Range(out))

\* two different URLs of one domain, then another domain: one item dropped
C6_Witness ==
    /\ kept.done
    /\ Len(items) = 3
    /\ Len(kept.out) = 2
    /\ items[1].url # items[2].url
    /\ extractDomain(items[1].url) = extractDomain(items[2].url)
    /\ kept.out = << items[1], items[3] >>

----------------------------------------------------------------------------
(* cleanTitle.  A title is a sequence of the tokens below; NL is a line    *)
(* break, which the dot of the two bracket patterns does not match.        *)

LBRACK == "["
RBRACK == "]"
LPAREN == "("
RPAREN == ")"
SPACE == " "
CHAR == "x"

TitleTokens == { LBRACK, RBRACK, LPAREN, RPAREN, SPACE, NL, CHAR }

Whitespace == { SPACE, NL }

\* position of the nearest close token after an open token at s[1], or 0 when
\* a line break or the end of s comes first (lazy dot-star, no dot-all flag)
RECURSIVE NearestClose(_, _, _)
NearestClose(s, k, close) ==
    IF k > Len(s) \/ s[k] = NL THEN 0
    ELSE IF s[k] = close THEN k
    ELSE NearestClose(s, k + 1, close)

\* s.replace(open .*? close, g, ''): leftmost matches, non-overlapping
RECURSIVE RemoveSegments(_, _, _)
RemoveSegments(s, open, close) ==
    IF s = << >> THEN << >>
    ELSE LET j == IF Head(s) = open THEN NearestClose(s, 2, close) ELSE 0
         IN  IF j > 0
             THEN RemoveSegments(SubSeq(s, j + 1, Len(s)), open, close)
             ELSE << Head(s) >> \o RemoveSegments(Tail(s), open, close)

\* s.replace(whitespace+, g, ' ')
RECURSIVE CollapseWhitespace(_)
CollapseWhitespace(s) ==
    IF s = << >> THEN << >>
    ELSE IF Head(s) \in Whitespace
         THEN IF Len(s) >= 2 /\ s[2] \in Whitespace
              THEN CollapseWhitespace(Tail(s))
              ELSE << SPACE >> \o CollapseWhitespace(Tail(s))
         ELSE << Head(s) >> \o CollapseWhitespace(Tail(s))

\* s.trim()
RECURSIVE Trim(_)
Trim(s) ==
    IF s = << >> THEN s
    ELSE IF Head(s) \in Whitespace THEN Trim(Tail(s))
    ELSE IF s[Len(s)] \in Whitespace THEN Trim(SubSeq(s, 1, Len(s) - 1))
    ELSE s

cleanTitle(t) ==
    Trim(CollapseWhitespace(
        RemoveSegments(RemoveSegments(t, LBRACK, RBRACK), LPAREN, RPAREN)))

----------------------------------------------------------------------------
(* SpecClean: cleanTitle applied once, then again to its own output *)

CleanInit ==
    /\ PipelineIdle
    /\ items = << >>
    /\ kept = NotRun
    /\ title \in SeqsUpTo(TitleTokens, MaxTitleLen)
    /\ cleaned = << >>
    /\ queries = << >>
    /\ raws = << >>
    /\ qstate = << >>
    /\ searches = << >>
    /\ toolOut = [ resolved |-> FALSE, searches |-> << >> ]

CleanOnce ==
    /\ cleaned = << >>
    /\ cleaned' = << cleanTitle(title) >>
    /\ UNCHANGED << pipelineVars, items, kept, title, queries, raws, qstate,
                    searches, toolOut >>

CleanAgain ==
    /\ Len(cleaned) = 1
    /\ cleaned' = Append(cleaned, cleanTitle(cleaned[1]))
    /\ UNCHANGED << pipelineVars, items, kept, title, queries, raws, qstate,
                    searches, toolOut >>

CleanNext == CleanOnce \/ CleanAgain

SpecClean == CleanInit /\ [][CleanNext]_vars

\* C8: cleanTitle is idempotent on every title over brackets, parentheses,
\* space, line break and ordinary characters.
C8_CleanTitleIdempotent == Len(cleaned) = 2 => cleaned[2] = cleaned[1]

----------------------------------------------------------------------------
(* SpecSearch: one exaWebSearch invocation.  Every query starts its search *)
(* at once; the searches settle in any order, each resolving with hits the *)
(* search service chooses or rejecting; Promise.all resolves once all the  *)
(* per-query promises (which never reject) have settled.                   *)

QueryNames == << "q1", "q2", "q3", "q4" >>

\* the raw results the search service may return
RawHits ==
    { [ url |-> << SCHEME, "a" >>,
        title |-> << CHAR, SPACE, LBRACK, CHAR, RBRACK >> ],
      [ url |-> << SCHEME, "a", SLASH, "p" >>, title |-> << CHAR >> ],
      [ url |-> << SCHEME, "b" >>, title |-> << >> ] }

\* data.results.map(...): the normalized shape (id: the object's identity)
Normalize(raw) ==
    [ i \in 1..Len(raw) |->
        [ url |-> raw[i].url, title |-> cleanTitle(raw[i].title), id |-> i ] ]

SearchInit ==
    /\ PipelineIdle
    /\ items = << >>
    /\ kept = NotRun
    /\ title = << >>
    /\ cleaned = << >>
    /\ \E k \in 0..MaxQueries :
          /\ queries = SubSeq(QueryNames, 1, k)
          /\ raws = [ i \in 1..k |-> << >> ]
          /\ qstate = [ i \in 1..k |-> "pending" ]
          /\ searches = [ i \in 1..k |-> [ query |-> QueryNames[i],
                                           results |-> << >> ] ]
    /\ toolOut = [ resolved |-> FALSE, searches |-> << >> ]

\* exa.searchAndContents resolves for query i: map, then deduplicate
SearchResolves(i) ==
    /\ qstate[i] = "pending"
    /\ \E raw \in SeqsUpTo(RawHits, MaxHits) :
          /\ raws' = [ raws EXCEPT ![i] = raw ]
          /\ searches' = [ searches EXCEPT ![i] =
                [ query |-> queries[i],
                  results |-> deduplicateByDomainAndUrl(Normalize(raw)) ] ]
    /\ qstate' = [ qstate EXCEPT ![i] = "ok" ]
    /\ UNCHANGED << pipelineVars, items, kept, title, cleaned, queries,
                    toolOut >>

\* the search of query i throws: the catch block returns an empty result set
SearchRejects(i) ==
    /\ qstate[i] = "pending"
    /\ searches' = [ searches EXCEPT ![i] =
                        [ query |-> queries[i], results |-> << >> ] ]
    /\ qstate' = [ qstate EXCEPT ![i] = "failed" ]
    /\ UNCHANGED << pipelineVars, items, kept, title, cleaned, queries, raws,
                    toolOut >>

\* variant: the tool resolves as soon as one search has settled
AnySettled == \E i \in 1..Len(queries) : qstate[i] # "pending"

\* every promise given to Promise.all has settled (none of them rejects)
AllSettled == \A i \in 1..Len(queries) : qstate[i] # "pending"

\* await Promise.all(searchPromises); return { searches: searchResults }
ToolResolves ==
    /\ ~toolOut.resolved
    /\ AllSettled
    /\ toolOut' = [ resolved |-> TRUE, searches |-> searches ]
    /\ UNCHANGED << pipelineVars, items, kept, title, cleaned, queries, raws,
                    qstate, searches >>

SearchNext ==
    \/ \E i \in 1..Len(queries) : SearchResolves(i)
    \/ \E i \in 1..Len(queries) : SearchRejects(i)
    \/ ToolResolves

SpecSearch == SearchInit /\ [][SearchNext]_vars

\* every returned item of the invocation, with the query it belongs to
ReturnedItems ==
    UNION { { << q, k >> : k \in 1..Len(toolOut.searches[q].results) } :
            q \in 1..Len(toolOut.searches) }

ItemAt(p) == toolOut.searches[p[1]].results[p[2]]

Distinct(a, b) ==
    /\ a.url # b.url
    /\ extractDomain(a.url) # extractDomain(b.url)

\* C7 as stated: taken over all queries of one invocation together, no two
\* returned items share a URL or a domain.
C7_DedupAcrossQueries ==
    toolOut.resolved =>
        \A p, r \in ReturnedItems : p # r => Distinct(ItemAt(p), ItemAt(r))

\* C7 amended: the scope is one query's result set.
C7_DedupWithinQuery ==
    toolOut.resolved =>
        \A q \in 1..Len(toolOut.searches) :
            LET out == toolOut.searches[q].results IN
            /\ \A k, l \in 1..Len(out) : k # l => Distinct(out[k], out[l])
            /\ qstate[q] = "ok" =>
                  /\ \A k \in 1..Len(out) :
                        out[k] \in Range(Normalize(raws[q]))
                  /\ \A h \in Range(Normalize(raws[q])) :
                        \E k \in 1..Len(out) :
                            extractDomain(out[k].url) = extractDomain(h.url)

\* one query lost a duplicate, and two queries both return the same URL
C7_Witness ==
    /\ toolOut.resolved
    /\ \E q \in 1..Len(queries) :
          Len(toolOut.searches[q].results) < Len(raws[q])
    /\ \E p, r \in ReturnedItems :
          p[1] # r[1] /\ ItemAt(p).url = ItemAt(r).url

----------------------------------------------------------------------------
(* Claims about the cron handler's authorization, checked under Spec *)

\* the orchestrator was never started for this request
OrchestratorNotStarted ==
    /\ stocks = << >> /\ pos = 0
    /\ agentCalls = << >> /\ pauses = << >>
    /\ emailCalls = << >> /\ mailSends = 0
    /\ ~RunCompleted

\* the header is absent or is not "Bearer " followed by the given secret
WrongAuth(h, secret) == ~h.present \/ h.value # << "Bearer ", secret >>

\* C11: with a configured shared secret, a GET whose Authorization header is
\* absent or differs from "Bearer <secret>" is answered 401 and never starts
\* the orchestrator: no agent call, no pause, no email.
C11_BadAuthIs401 ==
    (req.route = "GET" /\ env.cronSecret # Unset
        /\ WrongAuth(req.auth, env.cronSecret)) =>
        /\ OrchestratorNotStarted
        /\ pc \in { "handler", "done" }
        /\ (pc = "done" => resp.status = 401 /\ resp.kind = "error")

C11_Witness ==
    /\ req.route = "GET"
    /\ env.cronSecret = "s1"
    /\ req.auth.present /\ req.auth.value = << "Bearer ", "s2" >>
    /\ pc = "done"
    /\ resp.status = 401

----------------------------------------------------------------------------
(* Claims about the notifier's credential check, checked under Spec *)

\* the Gmail user or the Gmail app password is absent
MailCredentialAbsent == ~env.gmailUser \/ ~env.gmailPass

NotifierInvoked == emailCalls # << >>

\* C12: when a mail credential (user or app password) is absent, sendEmail
\* completes without raising and without creating or contacting a transport
\* (the control never reaches the transport, sendMail is never called), and
\* the run goes on to return its success result with every collected record.
C12_MissingMailCredsSkipsSend ==
    MailCredentialAbsent =>
        /\ pc # "mail"
        /\ mailSends = 0
        /\ thrown # "mail"
        /\ NotifierInvoked =>
              /\ thrown = "none"
              /\ pc \in { "return", "respond", "done" }
              /\ pc = "return" => ENABLED Return
              /\ pc \in { "respond", "done" } =>
                    /\ RunCompleted
                    /\ runResult.results = emailCalls[1]
                    /\ Len(runResult.results) = Len(stocks)
                    /\ \A i \in 1..Len(stocks) :
                          runResult.results[i] = ExtractRecord(responses[i])
              /\ pc = "done" =>
                    /\ resp.status = 200
                    /\ req.route = "POST" => resp.results = emailCalls[1]
                    /\ req.route = "GET" => resp.count = Len(stocks)

\* only the app password is missing; the run answered 200 with two records
C12_Witness ==
    /\ env.gmailUser /\ ~env.gmailPass
    /\ pc = "done"
    /\ resp.status = 200
    /\ req.route = "POST"
    /\ Len(resp.results) >= 2
    /\ resp.results[1] # resp.results[2]
    /\ mailSends = 0

----------------------------------------------------------------------------
(* Claims about the fan-out of exaWebSearch, checked under SpecSearch *)

\* what a query's entry is when its search succeeds, whatever the other
\* queries do: the first normalized hit of each domain, in order
FirstPerDomain(list) ==
    LET IsFirst(it) ==
            \A j \in 1..(it.id - 1) :
                extractDomain(list[j].url) # extractDomain(it.url)
    IN  SelectSeq(list, IsFirst)

EntryAlone(i) == FirstPerDomain(Normalize(raws[i]))

\* C13: for every set of failing queries and every completion order, the
\* tool call resolves (never rejects) only after all k searches have
\* settled, with exactly k entries in query order; a failed query's entry is
\* empty and every other entry is what it would be had no query failed.
C13_FanOutIsolatesFailures ==
    /\ \A i \in 1..Len(queries) :
          /\ qstate[i] = "ok" => searches[i].results = EntryAlone(i)
          /\ qstate[i] = "failed" => searches[i].results = << >>
    /\ ((\A i \in 1..Len(queries) : qstate[i] \in { "ok", "failed" })
            /\ ~toolOut.resolved) => ENABLED ToolResolves
    /\ toolOut.resolved =>
          /\ \A i \in 1..Len(queries) : qstate[i] \in { "ok", "failed" }
          /\ Len(toolOut.searches) = Len(queries)
          /\ \A i \in 1..Len(queries) :
                /\ toolOut.searches[i].query = queries[i]
                /\ qstate[i] = "failed" => toolOut.searches[i].results = << >>
                /\ qstate[i] = "ok" => toolOut.searches[i].results = EntryAlone(i)

\* the first query failed, the second returned a deduplicated result set
C13_Witness ==
    /\ toolOut.resolved
    /\ Len(queries) >= 2
    /\ qstate[1] = "failed"
    /\ qstate[2] = "ok"
    /\ Len(raws[2]) = 2
    /\ Len(toolOut.searches[2].results) = 1
    /\ toolOut.searches[1].results = << >>

----------------------------------------------------------------------------
(* The cron handler without a configured secret, checked under Spec *)

\* C14: when the cron shared secret is not configured, no GET request is
\* authorized: whatever its Authorization header, it is answered 401 and the
\* orchestrator never runs.
C14_UnsetSecretRejectsAll ==
    (req.route = "GET" /\ env.cronSecret = Unset) =>
        /\ OrchestratorNotStarted
        /\ pc \in { "handler", "done" }
        /\ (pc = "done" => resp.status = 401)

====
